---- MODULE Spec2Model ----
(***************************************************************************)
(* A model of lampe/nn/flows.py: the NormalizingFlow wrapper (log_prob,    *)
(* sample) and the MAF builder.                                            *)
(*                                                                         *)
(* Tensors are modelled by their shapes (sequences of naturals); the       *)
(* keyword options are a function from option names to values; a transform *)
(* is a record of the class that was instantiated and the arguments it was *)
(* built with.  The learnable parameters and the permutation drawn by      *)
(* RandomPermutation are not part of the model: no operation of flows.py   *)
(* reads them.                                                             *)
(***************************************************************************)
EXTENDS Integers, Sequences, FiniteSets, TLC

VARIABLES args, flow, call, result

vars == <<args, flow, call, result>>

-----------------------------------------------------------------------------
(* Bounds of the model *)

\* x_size and y_size range over 1..MaxSize
MaxSize == 2
\* num_transforms ranges over 0..MaxTransforms
MaxTransforms == 2
\* the caller passes at most MaxKwargs keyword options
MaxKwargs == 1
\* every entry of a batch shape or of a sample shape is at most MaxDim
MaxDim == 2
\* the sample shape has at most MaxShapeRank entries
MaxShapeRank == 2
\* the context y has at most MaxBatchRank leading batch dimensions
MaxBatchRank == 1

-----------------------------------------------------------------------------
(* Helpers on shapes *)

RECURSIVE numel(_)
\* torch.Size(shape).numel(): the product of the entries, 1 for the empty shape
numel(shape) ==
    IF shape = <<>> THEN 1 ELSE Head(shape) * numel(Tail(shape))

\* the tuples of length at most r over the set dims
Tuples(r, dims) == UNION {[1..k -> dims] : k \in 0..r}

Last(s) == s[Len(s)]
Front(s) == SubSeq(s, 1, Len(s) - 1)

-----------------------------------------------------------------------------
(* Exact arithmetic on fractions <<numerator, denominator>>.  The moments  *)
(* drawn below are small integers whose quotients are exact in floating    *)
(* point, so the fraction is the value the tensor division yields.         *)

Abs(n) == IF n < 0 THEN -n ELSE n

RECURSIVE Gcd(_, _)
Gcd(a, b) == IF b = 0 THEN a ELSE Gcd(b, a % b)

\* the fraction n / d (d # 0) in lowest terms with a positive denominator
Frac(n, d) ==
    LET g == Gcd(Abs(n), Abs(d))
        s == IF d < 0 THEN -1 ELSE 1
    IN  <<(s * n) \div g, Abs(d) \div g>>

-----------------------------------------------------------------------------
(* The collaborators' constructors: each records the class instantiated    *)
(* and the arguments flows.py passes to it.                                *)

\* moments=None
None == <<>>

\* the transform families, named by their nflows classes
AffineTf == "MaskedAffineAutoregressiveTransform"
PRQTf == "MaskedPiecewiseRationalQuadraticAutoregressiveTransform"
UMNNTf == "MaskedUMNNAutoregressiveTransform"

AutoregressiveClasses == {AffineTf, PRQTf, UMNNTf}

\* tf(features=..., context_features=..., **kwargs)
AutoregressiveTransform(tf, features, context_features, kwargs) ==
    [cls |-> tf, features |-> features,
     context_features |-> context_features, kwargs |-> kwargs]

\* T.RandomPermutation(features=...)
RandomPermutation(features) ==
    [cls |-> "RandomPermutation", features |-> features]

\* T.PointwiseAffineTransform(shift, scale): x -> x * scale + shift
PointwiseAffineTransform(shift, scale) ==
    [cls |-> "PointwiseAffineTransform", shift |-> shift, scale |-> scale]

\* PointwiseAffineTransform.forward of the wrapped library on a vector x of
\* integers: the outputs x * scale + shift, entry by entry
PointwiseAffineForward(t, x) ==
    [i \in DOMAIN x |->
        Frac(x[i] * t.scale[i][1] * t.shift[i][2]
                + t.shift[i][1] * t.scale[i][2],
             t.scale[i][2] * t.shift[i][2])]

\* D.StandardNormal(shape)
StandardNormal(shape) == [cls |-> "StandardNormal", shape |-> shape]

\* NormalizingFlow.__init__: Flow(CompositeTransform(transforms), base)
NormalizingFlow(base, transforms) ==
    [cls |-> "NormalizingFlow", base |-> base, transforms |-> transforms]

-----------------------------------------------------------------------------
(* MAF.__init__ *)

\* dict.setdefault(key, value): the key is added only when it is absent
SetDefault(kwargs, key, value) ==
    IF key \in DOMAIN kwargs THEN kwargs ELSE kwargs @@ (key :> value)

\* kwargs[key] = value
SetItem(kwargs, key, value) ==
    [k \in DOMAIN kwargs \cup {key} |-> IF k = key THEN value ELSE kwargs[k]]

CommonKeys ==
    {"hidden_features", "num_blocks", "use_residual_blocks",
     "use_batch_norm", "activation"}
PRQKeys == {"tails", "num_bins", "tail_bound"}
UMNNKeys == {"integrand_net_layers", "cond_size", "nb_steps"}

\* a mutant: the defaults are assigned, not set by default
CommonDefaultsOverwrite(kwargs) ==
    SetItem(SetItem(SetItem(SetItem(SetItem(kwargs,
        "hidden_features", 64),
        "num_blocks", 2),
        "use_residual_blocks", FALSE),
        "use_batch_norm", FALSE),
        "activation", "relu")

\* the five kwargs.setdefault calls that open MAF.__init__
CommonDefaults(kwargs) ==
    SetDefault(SetDefault(SetDefault(SetDefault(SetDefault(kwargs,
        "hidden_features", 64),
        "num_blocks", 2),
        "use_residual_blocks", FALSE),
        "use_batch_norm", FALSE),
        "activation", "relu")

\* a mutant: tails is only a default
ArchKwargsTailsDefault(architecture, kwargs) ==
    IF architecture = "PRQ"
    THEN SetDefault(SetDefault(SetDefault(kwargs,
             "tails", "linear"), "num_bins", 8), "tail_bound", 1)
    ELSE IF architecture = "UMNN"
    THEN SetDefault(SetDefault(SetDefault(kwargs,
             "integrand_net_layers", <<64, 64, 64>>),
             "cond_size", 32), "nb_steps", 32)
    ELSE kwargs

\* the keyword options after the architecture branch
ArchKwargs(architecture, kwargs) ==
    IF architecture = "PRQ"
    THEN SetDefault(SetDefault(SetItem(kwargs,
             "tails", "linear"), "num_bins", 8), "tail_bound", 1)
    ELSE IF architecture = "UMNN"
    THEN SetDefault(SetDefault(SetDefault(kwargs,
             "integrand_net_layers", <<64, 64, 64>>),
             "cond_size", 32), "nb_steps", 32)
    ELSE kwargs

\* a mutant: the UMNN branch is missing
SelectTransformNoUMNN(architecture) ==
    IF architecture = "PRQ" THEN PRQTf ELSE AffineTf

\* tf, the transform class the architecture branch selects
SelectTransform(architecture) ==
    IF architecture = "PRQ" THEN PRQTf
    ELSE IF architecture = "UMNN" THEN UMNNTf
    ELSE AffineTf

\* a mutant: the two arguments of PointwiseAffineTransform are swapped
StandardizeSwapped(moments) ==
    LET shift == moments[1]
        scale == moments[2]
    IN  PointwiseAffineTransform(
            [i \in DOMAIN scale |-> Frac(1, scale[i])],
            [i \in DOMAIN shift |-> Frac(-shift[i], scale[i])])

\* T.PointwiseAffineTransform(-shift / scale, 1 / scale)
Standardize(moments) ==
    LET shift == moments[1]
        scale == moments[2]
    IN  PointwiseAffineTransform(
            [i \in DOMAIN shift |-> Frac(-shift[i], scale[i])],
            [i \in DOMAIN scale |-> Frac(1, scale[i])])

\* a mutant: the permutation comes before the autoregressive transform
BlockPermutationFirst(tf, x_size, y_size, kwargs) ==
    <<RandomPermutation(x_size),
      AutoregressiveTransform(tf, x_size, y_size, kwargs)>>

\* a mutant: features and context_features are exchanged
BlockSizesSwapped(tf, x_size, y_size, kwargs) ==
    <<AutoregressiveTransform(tf, y_size, x_size, kwargs),
      RandomPermutation(x_size)>>

\* the two transforms one iteration of the loop extends the list with
Block(tf, x_size, y_size, kwargs) ==
    <<AutoregressiveTransform(tf, x_size, y_size, kwargs),
      RandomPermutation(x_size)>>

RECURSIVE Extend(_, _, _, _, _, _)
\* transforms after n more iterations of `for _ in range(num_transforms)`;
\* range(n) is empty for n <= 0
Extend(transforms, n, tf, x_size, y_size, kwargs) ==
    IF n <= 0 THEN transforms
    ELSE Extend(transforms \o Block(tf, x_size, y_size, kwargs),
                n - 1, tf, x_size, y_size, kwargs)

\* a mutant: the loop runs one iteration short
TransformsOneShort(tf, x_size, y_size, num_transforms, moments, kwargs) ==
    Extend(IF moments # None THEN <<Standardize(moments)>> ELSE <<>>,
           num_transforms - 1, tf, x_size, y_size, kwargs)

\* the list `transforms` MAF.__init__ assembles
Transforms(tf, x_size, y_size, num_transforms, moments, kwargs) ==
    Extend(IF moments # None THEN <<Standardize(moments)>> ELSE <<>>,
           num_transforms, tf, x_size, y_size, kwargs)

\* MAF(x_size, y_size, architecture, num_transforms, moments, **kwargs)
MAF(x_size, y_size, architecture, num_transforms, moments, kwargs) ==
    LET kw == ArchKwargs(architecture, CommonDefaults(kwargs))
        tf == SelectTransform(architecture)
        transforms ==
            Transforms(tf, x_size, y_size, num_transforms, moments, kw)
        base == StandardNormal(<<x_size>>)
    IN  NormalizingFlow(base, transforms)

\* the flow the constructor builds from a record of its arguments
Build(a) ==
    MAF(a.x_size, a.y_size, a.architecture, a.num_transforms,
        a.moments, a.kwargs)

-----------------------------------------------------------------------------
(* NormalizingFlow.log_prob and NormalizingFlow.sample.  A call returns a  *)
(* tensor, modelled by its shape, or raises.                               *)

Returned(shape) == [ok |-> TRUE, shape |-> shape, error |-> ""]
Raised(error) == [ok |-> FALSE, shape |-> <<>>, error |-> error]

\* x_size, as the flow knows it: the dimensionality of its base distribution
XSize(self) == self.base.shape[1]

\* whether the composite holds a transform with a conditioner network
HasAutoregressive(self) ==
    \E i \in DOMAIN self.transforms :
        self.transforms[i].cls \in AutoregressiveClasses

\* Flow._sample(num_samples, context) of the wrapped library: the outcomes
\* it can have.  The number of samples must be a positive integer.  The
\* first axis of context counts the contexts, and the result holds
\* num_samples draws for each of them.  The conditioner networks take a
\* batch of context vectors (rank 2); a context of higher rank may fail to
\* broadcast against the rank-2 noise, and either outcome is allowed.
_sample(self, num_samples, context) ==
    IF num_samples <= 0 THEN {Raised("TypeError")}
    ELSE {Returned(<<context[1], num_samples, XSize(self)>>)}
         \cup (IF Len(context) > 2 /\ HasAutoregressive(self)
               THEN {Raised("RuntimeError")} ELSE {})

\* Tensor.view(shape) on a tensor of shape xshape: the element counts agree
view(xshape, shape) ==
    IF numel(xshape) = numel(shape)
    THEN Returned(shape) ELSE Raised("RuntimeError")

\* a mutant: the flow keeps the order in which the inverse pass walked the
\* transforms
sampleReversing(self, y, shape) ==
    LET size == numel(shape)
        n == Len(self.transforms)
    IN  {[self |-> [self EXCEPT !.transforms =
                       [i \in 1..n |-> self.transforms[n + 1 - i]]],
          requested |-> size,
          out |-> IF x.ok
                  THEN view(x.shape,
                            Front(y) \o shape \o <<Last(x.shape)>>)
                  ELSE x] : x \in _sample(self, size, <<1>> \o y)}

\* NormalizingFlow.sample(y, shape): the outcomes of a call, each with the
\* flow as the call leaves it, the number of draws requested of _sample and
\* what the call returns or raises
sample(self, y, shape) ==
    LET size == numel(shape)
    IN  {[self |-> self,
          requested |-> size,
          out |-> IF x.ok
                  THEN view(x.shape,
                            Front(y) \o shape \o <<Last(x.shape)>>)
                  ELSE x] : x \in _sample(self, size, <<1>> \o y)}

\* Flow.log_prob(inputs, context) of the wrapped library on a batch x of
\* vectors and a batch y of contexts: one log-density per row; it fails
\* when the batch sizes differ or x is not of the flow's dimensionality
Flow_log_prob(self, x, y) ==
    IF x[1] # y[1] THEN Raised("ValueError")
    ELSE IF Last(x) # XSize(self) THEN Raised("ValueError")
    ELSE Returned(<<x[1]>>)

\* NormalizingFlow.log_prob(x, y)
log_prob(self, x, y) ==
    [self |-> self, requested |-> 0, out |-> Flow_log_prob(self, x, y)]

-----------------------------------------------------------------------------
(* The inputs *)

Architectures == {"affine", "PRQ", "UMNN", "prq"}

\* the value a caller passes for an option: never the default
CallerValue(key) ==
    CASE key = "hidden_features" -> 32
      [] key = "num_blocks" -> 3
      [] key = "use_residual_blocks" -> TRUE
      [] key = "use_batch_norm" -> TRUE
      [] key = "activation" -> "tanh"
      [] key = "tails" -> "none"
      [] key = "num_bins" -> 4
      [] key = "tail_bound" -> 3
      [] key = "integrand_net_layers" -> <<16, 16>>
      [] key = "cond_size" -> 16
      [] key = "nb_steps" -> 16

\* the options the transform class of an architecture accepts besides
\* features and context_features; the caller passes no other
AcceptedKeys(architecture) ==
    CommonKeys \cup (IF architecture = "PRQ" THEN PRQKeys
                     ELSE IF architecture = "UMNN" THEN UMNNKeys ELSE {})

CallerKwargs(architecture) ==
    {[k \in S |-> CallerValue(k)] :
        S \in {T \in SUBSET AcceptedKeys(architecture) :
                  Cardinality(T) <= MaxKwargs}}

NoKwargs == [k \in {} |-> 0]

ShiftValues == {0, 1}
ScaleValues == {1, 2}

\* moments: None, or two vectors (shift, scale) of length x_size
Moments(x_size) ==
    {None} \cup {<<[i \in 1..x_size |-> s], [i \in 1..x_size |-> c]>> :
                    s \in ShiftValues, c \in ScaleValues}

Zeros(n) == [i \in 1..n |-> 0]
Ones(n) == [i \in 1..n |-> 1]

ConstructorArgs ==
    UNION {UNION {
        [x_size : {xs}, y_size : 1..MaxSize, architecture : {a},
         num_transforms : 0..MaxTransforms, moments : Moments(xs),
         kwargs : CallerKwargs(a)] :
        xs \in 1..MaxSize} : a \in Architectures}

\* the flows the calls are made on
CallArgs ==
    {a \in ConstructorArgs :
        /\ a.kwargs = NoKwargs
        /\ a.moments \in {None, <<Zeros(a.x_size), Ones(a.x_size)>>}}

\* context tensors: a vector of y_size entries, or a batch of them
Contexts(y_size) ==
    {b \o <<y_size>> : b \in Tuples(MaxBatchRank, 1..MaxDim)}

\* sample shapes: tuples of non-negative integers
SampleShapes == Tuples(MaxShapeRank, 0..MaxDim)

-----------------------------------------------------------------------------
(* The state machine *)

NoFlow == [cls |-> "None"]
NoCall == [op |-> "none", x |-> <<>>, y |-> <<>>, shape |-> <<>>]
NoResult == [requested |-> 0, out |-> Raised("none")]

\* the constructor has been called with args and has not run yet
InitMAF ==
    /\ args \in ConstructorArgs
    /\ flow = NoFlow
    /\ call = NoCall
    /\ result = NoResult

\* MAF.__init__ runs
Construct ==
    /\ flow = NoFlow
    /\ flow' = Build(args)
    /\ UNCHANGED <<args, call, result>>

\* a flow right after construction, no call made yet
Init ==
    /\ args \in CallArgs
    /\ flow = Build(args)
    /\ call = NoCall
    /\ result = NoResult

\* a call flow.sample(y, shape)
Sample ==
    /\ flow # NoFlow
    /\ call = NoCall
    /\ \E y \in Contexts(args.y_size), shape \in SampleShapes :
         \E r \in sample(flow, y, shape) :
            /\ flow' = r.self
            /\ call' = [op |-> "sample", x |-> <<>>, y |-> y,
                        shape |-> shape]
            /\ result' = [requested |-> r.requested, out |-> r.out]
    /\ UNCHANGED args

\* a call flow.log_prob(x, y) on a batch x and a batch y
LogProb ==
    /\ flow # NoFlow
    /\ call = NoCall
    /\ \E bx \in 1..MaxDim, d \in 1..MaxSize, by \in 1..MaxDim :
         LET x == <<bx, d>>
             y == <<by, args.y_size>>
             r == log_prob(flow, x, y)
         IN  /\ flow' = r.self
             /\ call' = [op |-> "log_prob", x |-> x, y |-> y,
                         shape |-> <<>>]
             /\ result' = [requested |-> r.requested, out |-> r.out]
    /\ UNCHANGED args

\* the caller takes what the call returned or raised; the flow stays
Return ==
    /\ call # NoCall
    /\ call' = NoCall
    /\ result' = NoResult
    /\ UNCHANGED <<args, flow>>

Next == Sample \/ LogProb \/ Return

Spec == Init /\ [][Next]_vars

SpecMAF == InitMAF /\ [][Construct]_vars

-----------------------------------------------------------------------------
(* Properties of the calls, checked under Spec *)

SampleCalled == call.op = "sample"

\* the autoregressive transforms of a flow, by position
ARPositions(f) ==
    {i \in DOMAIN f.transforms : f.transforms[i].cls \in AutoregressiveClasses}

\* C1: for every context y, a vector or a batch of vectors, and every tuple
\* shape of non-negative integers, sample(y, shape) returns a tensor of
\* shape y.shape[:-1] + shape + (x_size,): the view never fails.
C1_ShapeLaw ==
    SampleCalled =>
        /\ result.out.ok
        /\ result.out.shape = Front(call.y) \o call.shape \o <<args.x_size>>

\* C7: for a single context vector y and any tuple shape of non-negative
\* integers, sample requests exactly numel(shape) draws, raises no error and
\* returns a tensor of shape shape + (x_size,); with shape = () that is one
\* draw and a tensor of shape (x_size,).
C7_AnyNonNegativeShape ==
    (SampleCalled /\ Len(call.y) = 1) =>
        /\ result.requested = numel(call.shape)
        /\ result.out.ok
        /\ result.out.shape = call.shape \o <<args.x_size>>

\* C8: whatever calls of log_prob and sample were made, and whether they
\* returned or raised, the flow is the one the constructor built (same base
\* distribution, same transforms in the same order), and what a call gives
\* is what it gives on the freshly constructed flow.
C8_StructureUnchanged ==
    /\ flow = Build(args)
    /\ SampleCalled =>
          \E r \in sample(Build(args), call.y, call.shape) :
              result = [requested |-> r.requested, out |-> r.out]
    /\ call.op = "log_prob" =>
          result.out = log_prob(Build(args), call.x, call.y).out

\* a sample call has raised on a flow with a standardization transform and
\* two blocks, and the flow still holds its five transforms
C8_Witness ==
    /\ SampleCalled
    /\ ~result.out.ok
    /\ args.moments # None
    /\ args.num_transforms = 2
    /\ Len(flow.transforms) = 5
    /\ flow.transforms[1].cls = "PointwiseAffineTransform"
    /\ flow.transforms[5].cls = "RandomPermutation"

-----------------------------------------------------------------------------
(* Properties of the constructor, checked under SpecMAF *)

Built == flow # NoFlow

\* C2: for architecture in {affine, PRQ, UMNN} and num_transforms >= 1 the
\* transform stack has 2 * num_transforms entries when moments is None and
\* 2 * num_transforms + 1 entries when moments is supplied.
C2_StackLength ==
    (/\ Built
     /\ args.architecture \in {"affine", "PRQ", "UMNN"}
     /\ args.num_transforms >= 1) =>
        Len(flow.transforms) =
            2 * args.num_transforms + (IF args.moments = None THEN 0 ELSE 1)

C2_Witness ==
    /\ Built
    /\ args.architecture = "UMNN"
    /\ args.num_transforms = 2
    /\ args.moments # None
    /\ Len(flow.transforms) = 5

\* C3: the architecture tag alone selects the family: 'PRQ' the spline
\* transform, 'UMNN' the monotonic-network transform, any other tag the
\* affine transform, and under any other tag no PRQ or UMNN option is added
\* to the options the caller passed.
C3_FamilyByTag ==
    Built =>
        \A i \in ARPositions(flow) :
            LET t == flow.transforms[i]
            IN  /\ args.architecture = "PRQ" => t.cls = PRQTf
                /\ args.architecture = "UMNN" => t.cls = UMNNTf
                /\ args.architecture \notin {"PRQ", "UMNN"} =>
                      /\ t.cls = AffineTf
                      /\ DOMAIN t.kwargs \cap (PRQKeys \cup UMNNKeys)
                            \subseteq DOMAIN args.kwargs
                      /\ DOMAIN t.kwargs = DOMAIN args.kwargs \cup CommonKeys

\* an unrecognized tag: both blocks hold the affine transform
C3_Witness ==
    /\ Built
    /\ args.architecture = "prq"
    /\ args.num_transforms = 2
    /\ ARPositions(flow) # {}
    /\ \A i \in ARPositions(flow) : flow.transforms[i].cls = AffineTf

\* C4: with architecture 'PRQ' every autoregressive transform gets
\* tails = 'linear' whatever the caller passed for tails, and num_bins and
\* tail_bound as the caller passed them, or 8 and 1.0 when the caller did
\* not.
C4_PRQOptions ==
    (Built /\ args.architecture = "PRQ") =>
        \A i \in ARPositions(flow) :
            LET kw == flow.transforms[i].kwargs
                given == args.kwargs
            IN  /\ PRQKeys \subseteq DOMAIN kw
                /\ kw["tails"] = "linear"
                /\ kw["num_bins"] = (IF "num_bins" \in DOMAIN given
                                     THEN given["num_bins"] ELSE 8)
                /\ kw["tail_bound"] = (IF "tail_bound" \in DOMAIN given
                                       THEN given["tail_bound"] ELSE 1)

\* the caller passed tails = 'none' and the transforms have tails = 'linear'
C4_Witness ==
    /\ Built
    /\ args.architecture = "PRQ"
    /\ "tails" \in DOMAIN args.kwargs
    /\ args.kwargs["tails"] # "linear"
    /\ ARPositions(flow) # {}
    /\ \A i \in ARPositions(flow) :
          /\ flow.transforms[i].kwargs["tails"] = "linear"
          /\ flow.transforms[i].kwargs["num_bins"] = 8

\* the defaults of the five conditioner options, as the claim lists them
ClaimedDefault(key) ==
    CASE key = "hidden_features" -> 64
      [] key = "num_blocks" -> 2
      [] key = "use_residual_blocks" -> FALSE
      [] key = "use_batch_norm" -> FALSE
      [] key = "activation" -> "relu"

\* C5: under every architecture tag each of the five conditioner options
\* reaches every autoregressive transform with the caller's value when the
\* caller passed it and with its default exactly when the caller did not.
C5_CommonOptions ==
    Built =>
        \A i \in ARPositions(flow) : \A k \in CommonKeys :
            /\ k \in DOMAIN flow.transforms[i].kwargs
            /\ flow.transforms[i].kwargs[k] =
                  (IF k \in DOMAIN args.kwargs
                   THEN args.kwargs[k] ELSE ClaimedDefault(k))

\* the caller passed hidden_features = 32: the transforms have 32 hidden
\* features and the default two blocks
C5_Witness ==
    /\ Built
    /\ "hidden_features" \in DOMAIN args.kwargs
    /\ ARPositions(flow) # {}
    /\ \A i \in ARPositions(flow) :
          /\ flow.transforms[i].kwargs["hidden_features"] = 32
          /\ flow.transforms[i].kwargs["num_blocks"] = 2

\* the arguments with moments left out
WithoutMoments(a) == [a EXCEPT !.moments = None]

\* the vectors the standardization transform is applied to
TestVectors(n) == [1..n -> -1..1]

\* C6: with moments = (zeros, ones) the flow is the flow built with
\* moments = None behind a standardization transform of offset 0 and scale
\* 1, which maps every x to itself with a Jacobian of absolute determinant
\* 1: given the same learnable transforms, the two flows give the same
\* log_prob and the same samples.
C6_UnitMoments ==
    (Built /\ args.moments = <<Zeros(args.x_size), Ones(args.x_size)>>) =>
        LET plain == Build(WithoutMoments(args))
            first == flow.transforms[1]
        IN  /\ first.cls = "PointwiseAffineTransform"
            /\ \A i \in 1..args.x_size :
                  first.shift[i] = <<0, 1>> /\ first.scale[i] = <<1, 1>>
            /\ Tail(flow.transforms) = plain.transforms
            /\ flow.base = plain.base
            /\ \A x \in TestVectors(args.x_size) :
                  PointwiseAffineForward(first, x) =
                      [i \in 1..args.x_size |-> <<x[i], 1>>]

\* a flow of two blocks built with moments = (zeros, ones)
C6_Witness ==
    /\ Built
    /\ args.x_size = 2
    /\ args.moments = <<Zeros(2), Ones(2)>>
    /\ args.num_transforms = 2
    /\ Len(flow.transforms) = 5
    /\ flow.transforms[1].scale = <<<<1, 1>>, <<1, 1>>>>

\* C9: the standardization transform, when moments is supplied, is at
\* position 0 and nowhere else; the other entries alternate, each
\* autoregressive transform of the selected family followed at once by a
\* permutation of the x_size features: no two autoregressive transforms are
\* adjacent and the last entry is a permutation when num_transforms >= 1.
C9_Alternation ==
    Built =>
        LET ts == flow.transforms
            off == IF args.moments = None THEN 0 ELSE 1
        IN  /\ args.moments # None =>
                  (ts # <<>> /\ ts[1].cls = "PointwiseAffineTransform")
            /\ \A i \in DOMAIN ts :
                  ts[i].cls = "PointwiseAffineTransform" =>
                      (i = 1 /\ args.moments # None)
            /\ \A i \in DOMAIN ts :
                  ts[i].cls \in AutoregressiveClasses =>
                      /\ ts[i].cls = SelectTransform(args.architecture)
                      /\ i + 1 \in DOMAIN ts
                      /\ ts[i + 1] = RandomPermutation(args.x_size)
            /\ \A i \in DOMAIN ts :
                  i > off =>
                      ((ts[i].cls \in AutoregressiveClasses) <=>
                          ((i - off) % 2 = 1))
            /\ \A i \in DOMAIN ts :
                  (i + 1 \in DOMAIN ts) =>
                      ~(/\ ts[i].cls \in AutoregressiveClasses
                        /\ ts[i + 1].cls \in AutoregressiveClasses)
            /\ args.num_transforms >= 1 =>
                  ts[Len(ts)].cls = "RandomPermutation"

\* standardization first, then transform, permutation, transform,
\* permutation
C9_Witness ==
    /\ Built
    /\ args.moments # None
    /\ args.num_transforms = 2
    /\ flow.transforms[1].cls = "PointwiseAffineTransform"
    /\ flow.transforms[2].cls = PRQTf
    /\ flow.transforms[3].cls = "RandomPermutation"
    /\ flow.transforms[4].cls = PRQTf
    /\ flow.transforms[5].cls = "RandomPermutation"

\* C10: every autoregressive transform is built with features = x_size and
\* context_features = y_size and every permutation with features = x_size;
\* the autoregressive transforms of one flow are of one family and receive
\* the same keyword options; the base distribution is a standard normal
\* over x_size dimensions.
C10_Dimensions ==
    Built =>
        LET ts == flow.transforms
        IN  /\ \A i \in ARPositions(flow) :
                  /\ ts[i].features = args.x_size
                  /\ ts[i].context_features = args.y_size
            /\ \A i \in DOMAIN ts :
                  ts[i].cls = "RandomPermutation" =>
                      ts[i].features = args.x_size
            /\ \A i, j \in ARPositions(flow) :
                  /\ ts[i].cls = ts[j].cls
                  /\ ts[i].kwargs = ts[j].kwargs
            /\ flow.base = [cls |-> "StandardNormal",
                            shape |-> <<args.x_size>>]
            /\ \A i \in DOMAIN ts :
                  ts[i].cls # "PointwiseAffineTransform" =>
                      ts[i].features = flow.base.shape[1]

\* x_size = 2 and y_size = 1: both autoregressive transforms have two
\* features and one context feature, and the base has two dimensions
C10_Witness ==
    /\ Built
    /\ args.x_size = 2
    /\ args.y_size = 1
    /\ args.num_transforms = 2
    /\ args.moments = None
    /\ flow.transforms[1].features = 2
    /\ flow.transforms[3].context_features = 1
    /\ flow.base.shape = <<2>>

====
